---- MODULE Spec2Model ----
(***************************************************************************)
(* A model of atlassian-cli's synchronisation engine: the breadth-first    *)
(* remote traversal (confluence/client.py), the upload walk and the        *)
(* download (sync/service.py) and the local directory store                *)
(* (local/repository.py, local/naming.py).  Strings that the code inspects *)
(* character by character (titles, slugs, path strings) are sequences of   *)
(* one-character strings; identifiers, which the code only compares, are   *)
(* strings.                                                                *)
(***************************************************************************)
EXTENDS Integers, Sequences, FiniteSets, TLC

VARIABLES
    remote,     \* the remote space: page id -> [title, parent, version, body]
    rorder,     \* the order in which the server lists pages (list-children, search)
    faulted,    \* whether the server has answered a request with an error status
    troot,      \* iter_page_tree: the root_page_id argument
    queue,      \* iter_page_tree: the deque of pending identifiers
    yielded,    \* iter_page_tree: the pages yielded so far
    tpc,        \* iter_page_tree: "iter" while the generator runs, then "done"
    tlog,       \* history: the requests iter_page_tree has made, in order
    lparent,    \* local tree: node -> its parent node (0 for the root directory)
    ldisk,      \* local tree: node -> the metadata and body stored in its page.md
    lmem,       \* upload_tree: node -> the LocalPage loaded by read_tree
    todo,       \* upload_tree: the pending _upload_subtree calls, <<node, parent_id>>
    created,    \* upload_tree: the created counter
    updated,    \* upload_tree: the updated counter
    upc,        \* upload_tree: "idle", "root", "walk", "returned" or "raised"
    runs,       \* number of upload_tree calls started
    results,    \* the SyncResult of every upload_tree call that returned
    before,     \* history: the metadata read_tree loaded at the start of this call
    outcome,    \* history: node -> how this call classified it
    returned,   \* history: node -> the PageContent its remote write returned
    sent,       \* history: the requests of this call, in order
    uparent,    \* history: the parent_page_id argument of this call
    proot,      \* resolve_page_directory: self.root, an absolute path
    pdirs,      \* resolve_page_directory: the directories of the file system
    pfiles,     \* resolve_page_directory: the regular files of the file system
    presult,    \* resolve_page_directory: the outcome of the last call
    sdirs,      \* local store: the directories, as paths below self.root
    sfiles,     \* local store: directory -> the content of its page.md
    susage,     \* local store: self._slug_usage, directory -> used names
    swrites,    \* number of write_tree calls made
    schanged,   \* whether another user has edited the remote space
    allocs,     \* history: the _unique_slug calls, in order
    lastWrite,  \* history: the arguments and outcome of the last write_tree
    dpc,        \* download_tree: "idle", "iter", "returned" or "raised"
    dargs,      \* download_tree: the keyword arguments of the call
    dresult,    \* download_tree: the SyncResult returned or the exception raised
    dbefore,    \* history: the directories and files when the call started
    rtree,      \* read_tree: what the last call returned or raised
    rprev,      \* read_tree: what the call before the last returned or raised
    gtitle,     \* slugify: the value argument
    gslug       \* slugify: the slug returned

tvars == <<troot, queue, yielded, tpc, tlog>>
rvars == <<remote, rorder, faulted>>
uvars == <<lparent, ldisk, lmem, todo, created, updated, upc, runs, results,
           before, outcome, returned, sent, uparent>>
pvars == <<proot, pdirs, pfiles, presult>>
svars == <<sdirs, sfiles, susage, swrites, schanged, allocs, lastWrite>>
dvars == <<dpc, dargs, dresult, dbefore>>
rdvars == <<rtree, rprev>>
gvars == <<gtitle, gslug>>
vars == <<rvars, tvars, uvars, pvars, svars, dvars, rdvars, gvars>>

\* What the actions of one component leave alone.
tframe == <<uvars, pvars, svars, dvars, rdvars, gvars>>
uframe == <<tvars, pvars, svars, dvars, rdvars, gvars>>
pframe == <<rvars, tvars, uvars, svars, dvars, rdvars, gvars>>
sframe == <<tvars, uvars, pvars, dvars, rdvars, gvars>>
dframe == <<uvars, pvars, rdvars, gvars>>
rdframe == <<rvars, tvars, uvars, pvars, svars, dvars, gvars>>
gframe == <<rvars, tvars, uvars, pvars, svars, dvars, rdvars>>

-----------------------------------------------------------------------------
(* Bounds *)

\* Number of pages of the remote space in the traversal specification.
MaxPages == 4

\* Number of pages of the local tree in the upload specification.
MaxLocal == 3

\* Number of upload_tree calls in the upload specification.
MaxRuns == 2

\* Number of components of a caller-supplied path.
MaxParts == 2

\* Number of pages of the remote space in the store specification.
MaxStorePages == 4

\* Number of write_tree calls in the store specification.
MaxWrites == 2

-----------------------------------------------------------------------------
(* Shared vocabulary *)

\* Python's None, for the Optional[str] fields.
None == "None"

\* Python's None for the Optional[int] version field (versions are >= 0).
NoVersion == -1

\* Truthiness of an Optional[str]: None and "" are false.
TruthyStr(s) == s # None /\ s # ""

\* Truthiness of an Optional[int]: None and 0 are false.
TruthyInt(v) == v # NoVersion /\ v # 0

\* a or b, on Optional[str].
OrElse(a, b) == IF TruthyStr(a) THEN a ELSE b

\* None for an Optional[str] that is a title (a sequence of characters).
NoTitle == <<None>>

\* Truthiness of an Optional[str] title.
TruthyTitle(t) == t # NoTitle /\ t # <<>>

\* The server-assigned identifier of the i-th page.
IdOf(i) == ToString(99 + i)

SeqToSet(s) == {s[i] : i \in 1..Len(s)}

IsPrefix(s, t) == Len(s) <= Len(t) /\ \A i \in 1..Len(s) : s[i] = t[i]

-----------------------------------------------------------------------------
(* The state of each component while a specification does not exercise it *)

RemoteIdle ==
    /\ remote = <<>>
    /\ rorder = <<>>
    /\ faulted = FALSE

TraversalIdle ==
    /\ troot = None
    /\ queue = <<>>
    /\ yielded = <<>>
    /\ tpc = "done"
    /\ tlog = <<>>

UploadIdle ==
    /\ lparent = <<>>
    /\ ldisk = <<>>
    /\ lmem = <<>>
    /\ todo = <<>>
    /\ created = 0
    /\ updated = 0
    /\ upc = "idle"
    /\ runs = 0
    /\ results = <<>>
    /\ before = <<>>
    /\ outcome = <<>>
    /\ returned = <<>>
    /\ sent = <<>>
    /\ uparent = None

PathIdle ==
    /\ proot = <<>>
    /\ pdirs = {}
    /\ pfiles = {}
    /\ presult = [kind |-> "none"]

StoreIdle ==
    /\ sdirs = {}
    /\ sfiles = <<>>
    /\ susage = <<>>
    /\ swrites = 0
    /\ schanged = FALSE
    /\ allocs = <<>>
    /\ lastWrite = [called |-> FALSE]

DownloadIdle ==
    /\ dpc = "idle"
    /\ dargs = <<>>
    /\ dresult = [kind |-> "none"]
    /\ dbefore = <<>>

ReadIdle ==
    /\ rtree = [called |-> FALSE]
    /\ rprev = [called |-> FALSE]

SlugIdle ==
    /\ gtitle = <<>>
    /\ gslug = [called |-> FALSE]

-----------------------------------------------------------------------------
(* The remote API wrapper, read side (confluence/client.py) *)

\* _to_page_content: id, title, version and parent_id = ancestors[-1].id.
ToPageContent(rem, id) ==
    [id |-> id, title |-> rem[id].title, space_key |-> rem[id].space,
     parent_id |-> rem[id].parent, version |-> rem[id].version,
     body |-> rem[id].body]

\* get_page: GET content/{id}.
GetPage(rem, id) == ToPageContent(rem, id)

GetChildPagesTwice(rem, order, id) ==
    SelectSeq(order \o order, LAMBDA c : c \in DOMAIN rem /\ rem[c].parent = id)

\* get_child_pages: the identifiers of the children, in the server's order.
\* _iter_paginated follows the server's next links until there is none, so
\* the list is the whole listing.
GetChildPages(rem, order, id) ==
    SelectSeq(order, LAMBDA c : c \in DOMAIN rem /\ rem[c].parent = id)

\* One HTTP request of the client, as the history records it: for an update
\* the number sent, the current_version it was computed from and the version
\* the server had when the request arrived, for a read the version and the
\* last ancestor the response carried.
Request(kind, page_id, parent_id) ==
    [kind |-> kind, page_id |-> page_id, parent_id |-> parent_id,
     number |-> NoVersion, current |-> NoVersion, had |-> NoVersion,
     version |-> NoVersion, ancestor |-> None, ok |-> TRUE]

\* The page of a call that returned None or raised.
NoPage == [id |-> None]

\* The result of a call whose last request raised (response.raise_for_status()).
Raised(rem, reqs) ==
    [ok |-> FALSE, rem |-> rem, page |-> NoPage,
     reqs |-> [reqs EXCEPT ![Len(reqs)].ok = FALSE,
                           ![Len(reqs)].version = NoVersion,
                           ![Len(reqs)].ancestor = None]]

\* A call made after the requests of an earlier one.
After(reqs, call) == [call EXCEPT !.reqs = reqs \o @]

\* get_page as a call: 404 for an unknown page.
GetPageCall(rem, page_id) ==
    LET req == Request("get", page_id, None)
    IN  IF page_id \notin DOMAIN rem THEN Raised(rem, <<req>>)
        ELSE [ok |-> TRUE, rem |-> rem, page |-> GetPage(rem, page_id),
              reqs |-> <<[req EXCEPT !.version = rem[page_id].version,
                                     !.ancestor = rem[page_id].parent]>>]

\* get_child_pages as a call: the listing of content/{id}/child/page.
GetChildPagesCall(rem, page_id) ==
    [ok |-> TRUE, rem |-> rem, page |-> NoPage,
     reqs |-> <<Request("children", page_id, None)>>]

-----------------------------------------------------------------------------
(* iter_page_tree (confluence/client.py) *)

PopRight(q) == <<q[Len(q)], SubSeq(q, 1, Len(q) - 1)>>

\* deque.popleft(): the element taken and the rest.
PopLeft(q) == <<Head(q), Tail(q)>>

\* The remote spaces of the traversal specification: MaxPages pages, each
\* with no parent or with a parent created before it.
TraversalParents ==
    {p \in [1..MaxPages -> 0..MaxPages] : \A i \in 1..MaxPages : p[i] < i}

ListingOrders ==
    {o \in [1..MaxPages -> 1..MaxPages] : \A i, j \in 1..MaxPages : o[i] = o[j] => i = j}

TraversalRemote(p) ==
    [id \in {IdOf(i) : i \in 1..MaxPages} |->
        LET i == CHOOSE k \in 1..MaxPages : IdOf(k) = id
        IN  [title |-> <<"A">>, space |-> "DOC", version |-> 1, body |-> "s",
             parent |-> IF p[i] = 0 THEN None ELSE IdOf(p[i])]]

TraversalInit ==
    /\ UploadIdle
    /\ PathIdle
    /\ StoreIdle
    /\ DownloadIdle
    /\ ReadIdle
    /\ SlugIdle
    /\ \E p \in TraversalParents : remote = TraversalRemote(p)
    /\ \E o \in ListingOrders : rorder = [i \in 1..MaxPages |-> IdOf(o[i])]
    /\ faulted = FALSE
    /\ troot \in {IdOf(i) : i \in 1..MaxPages}
    /\ queue = <<troot>>
    /\ yielded = <<>>
    /\ tpc = "iter"
    /\ tlog = <<>>

\* One turn of the while loop: popleft, get_page, yield, enqueue the children.
IterPageTreeStep ==
    /\ tpc = "iter"
    /\ queue # <<>>
    /\ LET pop == PopLeft(queue)
           page == GetPage(remote, pop[1])
       IN  /\ yielded' = Append(yielded, page)
           /\ queue' = pop[2] \o GetChildPages(remote, rorder, page.id)
           /\ tlog' = tlog \o GetPageCall(remote, pop[1]).reqs
                           \o GetChildPagesCall(remote, page.id).reqs
    /\ UNCHANGED <<rvars, troot, tpc, tframe>>

\* The queue is empty: the generator is exhausted.
IterPageTreeDone ==
    /\ tpc = "iter"
    /\ queue = <<>>
    /\ tpc' = "done"
    /\ UNCHANGED <<rvars, troot, queue, yielded, tlog, tframe>>

TraversalNext == IterPageTreeStep \/ IterPageTreeDone

SpecTraversal == TraversalInit /\ [][TraversalNext]_vars

\* The caller drains the generator (list(iterator)): while the loop can take
\* a turn it does.
SpecTraversalLive == SpecTraversal /\ WF_vars(TraversalNext)

-----------------------------------------------------------------------------
(* C1 *)

RECURSIVE ChildrenOfAll(_)
ChildrenOfAll(level) ==
    IF level = <<>> THEN <<>>
    ELSE GetChildPages(remote, rorder, Head(level)) \o ChildrenOfAll(Tail(level))

RECURSIVE LevelsFrom(_)
LevelsFrom(level) ==
    IF level = <<>> THEN <<>> ELSE level \o LevelsFrom(ChildrenOfAll(level))

YieldedIds == [i \in 1..Len(yielded) |-> yielded[i].id]

\* C1: iter_page_tree yields the root first, every other page after its
\* parent, and the pages level by level with each level's children in the
\* order list-children returned them.
C1_BreadthFirst ==
    /\ Len(yielded) >= 1 => yielded[1].id = troot
    /\ \A n \in 2..Len(yielded) : \E m \in 1..(n - 1) : yielded[m].id = yielded[n].parent_id
    /\ IsPrefix(YieldedIds, LevelsFrom(<<troot>>))

\* A finished traversal of a tree where a second-level page has a sibling
\* listed after it and a child of its own (breadth-first differs from
\* depth-first).
C1_Witness ==
    /\ tpc = "done"
    /\ Len(yielded) >= 4
    /\ yielded[2].parent_id = troot
    /\ yielded[3].parent_id = troot
    /\ yielded[4].parent_id = yielded[2].id

-----------------------------------------------------------------------------
(* The remote API wrapper, write side (confluence/client.py) *)

\* get_page_by_title: the first search result for the title whose last
\* ancestor is parent_id, or, when parent_id is falsy, the first result.
GetPageByTitle(rem, order, title, parent_id) ==
    LET found == SelectSeq(order, LAMBDA c :
                     /\ c \in DOMAIN rem
                     /\ rem[c].title = title
                     /\ (TruthyStr(parent_id) => rem[c].parent = parent_id))
    IN  IF found = <<>> THEN None ELSE Head(found)

\* The smallest identifier the server has not assigned yet.
NewId(rem) ==
    IdOf(CHOOSE k \in 1..(Cardinality(DOMAIN rem) + 1) :
            /\ IdOf(k) \notin DOMAIN rem
            /\ \A j \in 1..(k - 1) : IdOf(j) \in DOMAIN rem)

\* create_page: POST content; ancestors only when parent_id is truthy.  The
\* server assigns the identifier and version 1.
CreatePage(rem, space_key, title, storage, parent_id) ==
    LET id == NewId(rem)
        anc == IF TruthyStr(parent_id) THEN parent_id ELSE None
        rem2 == [k \in DOMAIN rem \cup {id} |->
                    IF k = id
                    THEN [title |-> title, space |-> space_key, parent |-> anc,
                          version |-> 1, body |-> storage]
                    ELSE rem[k]]
    IN  [ok |-> TRUE, rem |-> rem2, page |-> ToPageContent(rem2, id),
         reqs |-> <<Request("create", None, anc)>>]

\* update_page: PUT content/{id} with version number current_version + 1 and
\* ancestors only when parent_id is truthy.  The server answers 404 for an
\* unknown page and a version conflict unless the number is its version + 1;
\* otherwise it stores the page under that number.
UpdatePage(rem, page_id, title, space_key, storage, current_version, parent_id) ==
    LET anc == IF TruthyStr(parent_id) THEN parent_id ELSE None
        req == [Request("update", page_id, anc) EXCEPT
                    !.number = current_version + 1, !.current = current_version,
                    !.had = IF page_id \in DOMAIN rem THEN rem[page_id].version
                            ELSE NoVersion]
    IN  IF page_id \notin DOMAIN rem THEN Raised(rem, <<req>>)
        ELSE IF req.number # rem[page_id].version + 1 THEN Raised(rem, <<req>>)
        ELSE LET rem2 == [rem EXCEPT ![page_id] =
                            [title |-> title, space |-> space_key,
                             parent |-> IF anc = None THEN @.parent ELSE anc,
                             version |-> req.number, body |-> storage]]
             IN  [ok |-> TRUE, rem |-> rem2, page |-> ToPageContent(rem2, page_id),
                  reqs |-> <<req>>]

\* ensure_page: update the page found by title, else create one.
EnsurePage(rem, order, space_key, title, storage, parent_id) ==
    LET existing == GetPageByTitle(rem, order, title, parent_id)
        search == [Request("search", existing,
                           IF TruthyStr(parent_id) THEN parent_id ELSE None)
                   EXCEPT !.version = IF existing = None THEN NoVersion
                                      ELSE rem[existing].version,
                          !.ancestor = IF existing = None THEN None
                                       ELSE rem[existing].parent]
    IN  After(<<search>>,
              IF existing # None
              THEN UpdatePage(rem, existing, title, space_key, storage,
                              rem[existing].version,
                              OrElse(parent_id, rem[existing].parent))
              ELSE CreatePage(rem, space_key, title, storage, parent_id))

\* An error status (network, authorization, server) on the f-th request of a
\* call: that request raises, the later ones are not made, and the remote
\* space stays as it was, since only the last request of a call writes.
Faulted(rem, call, f) ==
    IF f = 0 THEN call ELSE Raised(rem, SubSeq(call.reqs, 1, f))

-----------------------------------------------------------------------------
(* The converters (sync/converters.py): Markdown is "raw" as typed or       *)
(* "canon" as markdownify prints it; both render to the storage text "s".   *)

MarkdownToStorage(markdown) == "s"

StorageToMarkdown(storage) == "canon"

-----------------------------------------------------------------------------
(* upload_tree (sync/service.py) *)

\* The space_key argument of upload_tree.
SpaceKey == "DOC"

\* Pages of the remote space outside the uploaded tree: the parent a stale
\* page.md names, and the parent the caller may pass.
StaleParent == "900"
CallerParent == "901"

LocalNodes == DOMAIN lparent

\* page.children, in read_tree's order.
ChildrenOf(node) ==
    SelectSeq([i \in 1..Len(lparent) |-> i], LAMBDA c : lparent[c] = node)

ResolvedParentCachedFirst(parent_page_id, cached) == OrElse(cached, parent_page_id)

\* resolved_parent = parent_page_id or local_root.metadata.parent_id
ResolvedParent(parent_page_id, cached) == OrElse(parent_page_id, cached)

PreferCached(parent_id, cached) == OrElse(cached, parent_id)

\* parent_for_update = parent_id or metadata.parent_id
ParentForUpdate(parent_id, cached) == OrElse(parent_id, cached)

NeedsFetchAlways(version) == TRUE

\* current_version is None
NeedsFetch(version) == version = NoVersion

\* The remote calls of _ensure_remote_page for one page.
EnsureRemoteCall(rem, order, meta, space_key, parent_id) ==
    LET storage == MarkdownToStorage(meta.body)
        parent_for_update == ParentForUpdate(parent_id, meta.parent_id)
        fetched == GetPageCall(rem, meta.confluence_id)
        Update(current_version) ==
            UpdatePage(rem, meta.confluence_id, meta.title, space_key, storage,
                       current_version, parent_for_update)
    IN  IF TruthyStr(meta.confluence_id)
        THEN IF NeedsFetch(meta.version)
             THEN IF fetched.ok
                  THEN After(fetched.reqs, Update(fetched.page.version))
                  ELSE fetched
             ELSE Update(meta.version)
        ELSE EnsurePage(rem, order, space_key, meta.title, storage, parent_for_update)

EnsureRemoteMetaKeepVersion(meta, page, space_key, parent_id) ==
    [title |-> meta.title,
     confluence_id |-> page.id,
     version |-> meta.version,
     space_key |-> OrElse(page.space_key, space_key),
     parent_id |-> ParentForUpdate(parent_id, meta.parent_id),
     body |-> StorageToMarkdown(page.body)]

\* The metadata and body _ensure_remote_page leaves in the LocalPage, which
\* save_page writes to page.md.
EnsureRemoteMeta(meta, page, space_key, parent_id) ==
    [title |-> meta.title,
     confluence_id |-> page.id,
     version |-> page.version,
     space_key |-> OrElse(page.space_key, space_key),
     parent_id |-> ParentForUpdate(parent_id, meta.parent_id),
     body |-> StorageToMarkdown(page.body)]

ClassifySubtreeOrEqual(meta, page) ==
    IF TruthyInt(meta.version) /\ page.version >= meta.version THEN "updated"
    ELSE IF ~TruthyStr(meta.confluence_id) THEN "created"
    ELSE "none"

\* upload_tree's test on the root, read from the LocalPage as it is when the
\* test runs.
ClassifyRoot(meta, page) ==
    IF meta.confluence_id = page.id
    THEN IF TruthyInt(meta.version) /\ page.version > meta.version
         THEN "updated" ELSE "none"
    ELSE "created"

\* _upload_subtree's test on a descendant, read from the LocalPage as it is
\* when the test runs.
ClassifySubtree(meta, page) ==
    IF TruthyInt(meta.version) /\ page.version > meta.version THEN "updated"
    ELSE IF ~TruthyStr(meta.confluence_id) THEN "created"
    ELSE "none"

Bump(counter, class, which) == IF class = which THEN counter + 1 ELSE counter

SubtreeCallsReversed(children, parent_id) ==
    [i \in 1..Len(children) |-> <<children[Len(children) + 1 - i], parent_id>>]

\* for child in page.children: self._upload_subtree(child, space_key, remote.id)
SubtreeCalls(children, parent_id) ==
    [i \in 1..Len(children) |-> <<children[i], parent_id>>]

\* The page.md of a node before the first upload: never synced, synced at
\* the remote's version, synced at an older version, or naming a remote page
\* without a version.
LocalKinds == {"new", "synced", "stale", "noversion"}

InitialVersion == 3

InitialMeta(i, kind, cached) ==
    [title |-> <<"T", ToString(i)>>,
     confluence_id |-> IF kind = "new" THEN None ELSE IdOf(i),
     version |-> CASE kind = "synced" -> InitialVersion
                   [] kind = "stale" -> InitialVersion - 1
                   [] OTHER -> NoVersion,
     space_key |-> IF kind = "new" THEN None ELSE SpaceKey,
     parent_id |-> cached,
     body |-> IF kind = "new" THEN "raw" ELSE "canon"]

Container == [title |-> <<"C">>, space |-> SpaceKey, parent |-> None,
              version |-> 1, body |-> "s"]

\* A page of the remote space that no page.md names.
ExternId == "800"

\* Where the page that no page.md names sits.
ExternPlaces == {"absent", "same", "other"}

\* The remote space before the first upload: the two outside pages, one
\* page for every local page that names a remote identifier, under the page
\* of its local parent when that has one, and, unless extern is "absent", a
\* page that has the title of the last local page, which is new, at that
\* place ("same") or under the stale parent ("other").
InitialRemote(par, kinds, extern) ==
    LET n == Len(par)
        RemoteParent(i) == IF par[i] # 0 /\ kinds[par[i]] # "new"
                           THEN IdOf(par[i]) ELSE None
    IN  [id \in {StaleParent, CallerParent}
                \cup {IdOf(i) : i \in {k \in DOMAIN par : kinds[k] # "new"}}
                \cup (IF extern # "absent" THEN {ExternId} ELSE {}) |->
            IF id \in {StaleParent, CallerParent} THEN Container
            ELSE IF id = ExternId
            THEN [title |-> <<"T", ToString(n)>>, space |-> SpaceKey,
                  parent |-> IF extern = "same" THEN RemoteParent(n) ELSE StaleParent,
                  version |-> InitialVersion, body |-> "s"]
            ELSE LET i == CHOOSE k \in DOMAIN par : IdOf(k) = id
                 IN  [title |-> <<"T", ToString(i)>>, space |-> SpaceKey,
                      parent |-> RemoteParent(i),
                      version |-> InitialVersion, body |-> "s"]]

LocalShapes ==
    UNION {{p \in [1..n -> 0..n] : p[1] = 0 /\ \A i \in 2..n : p[i] \in 1..(i - 1)}
           : n \in 1..MaxLocal}

UploadInit ==
    /\ TraversalIdle
    /\ PathIdle
    /\ StoreIdle
    /\ DownloadIdle
    /\ ReadIdle
    /\ SlugIdle
    /\ lparent \in LocalShapes
    /\ \E kinds \in [DOMAIN lparent -> LocalKinds] :
       \E rootCached, childCached \in {None, StaleParent} :
          /\ ldisk = [i \in DOMAIN lparent |->
                        InitialMeta(i, kinds[i],
                                    IF i = 1 THEN rootCached ELSE childCached)]
          /\ \E extern \in ExternPlaces :
                /\ extern # "absent" => kinds[Len(lparent)] = "new"
                /\ remote = InitialRemote(lparent, kinds, extern)
    /\ rorder = <<StaleParent, CallerParent, ExternId>> \o [i \in 1..MaxLocal |-> IdOf(i)]
    /\ faulted = FALSE
    /\ lmem = <<>>
    /\ todo = <<>>
    /\ created = 0
    /\ updated = 0
    /\ upc = "idle"
    /\ runs = 0
    /\ results = <<>>
    /\ before = <<>>
    /\ outcome = <<>>
    /\ returned = <<>>
    /\ sent = <<>>
    /\ uparent = None

\* upload_tree, lines 69-74: read_tree, the effective parent of the root,
\* the counters.  No upload is started once the server has answered with an
\* error status.
UploadTreeBegin ==
    /\ upc \in {"idle", "returned", "raised"}
    /\ runs < MaxRuns
    /\ ~faulted
    /\ \E parent_page_id \in {None, CallerParent} :
          /\ uparent' = parent_page_id
          /\ todo' = <<<<1, ResolvedParent(parent_page_id, ldisk[1].parent_id)>>>>
    /\ lmem' = ldisk
    /\ before' = ldisk
    /\ created' = 0
    /\ updated' = 0
    /\ outcome' = <<>>
    /\ returned' = <<>>
    /\ sent' = <<>>
    /\ runs' = runs + 1
    /\ upc' = "root"
    /\ UNCHANGED <<rvars, uframe, lparent, ldisk, results>>

\* One _ensure_remote_page call and the classification that follows it:
\* upload_tree lines 76-84 for the root, _upload_subtree lines 100-109 for a
\* descendant.  A request that raises ends upload_tree.
UploadPage(node, parent_id, isRoot) ==
    LET tried == EnsureRemoteCall(remote, rorder, lmem[node], SpaceKey, parent_id)
    IN  \E f \in 0..(IF faulted THEN 0 ELSE Len(tried.reqs)) :
    LET call == Faulted(remote, tried, f)
    IN  /\ remote' = call.rem
        /\ faulted' = (faulted \/ f > 0)
        /\ sent' = sent \o [i \in 1..Len(call.reqs) |-> [node |-> node] @@ call.reqs[i]]
        /\ IF call.ok
           THEN LET meta == EnsureRemoteMeta(lmem[node], call.page, SpaceKey, parent_id)
                    class == IF isRoot THEN ClassifyRoot(meta, call.page)
                             ELSE ClassifySubtree(meta, call.page)
                    calls == SubtreeCalls(ChildrenOf(node), call.page.id)
                IN  /\ lmem' = [lmem EXCEPT ![node] = meta]
                    /\ ldisk' = [ldisk EXCEPT ![node] = meta]
                    /\ returned' = (node :> call.page) @@ returned
                    /\ outcome' = (node :> class) @@ outcome
                    /\ created' = Bump(created, class, "created")
                    /\ updated' = Bump(updated, class, "updated")
                    /\ todo' = calls \o Tail(todo)
                    /\ upc' = "walk"
           ELSE /\ upc' = "raised"
                /\ UNCHANGED <<lmem, ldisk, returned, outcome, created, updated, todo>>
    /\ UNCHANGED <<rorder, uframe, lparent, runs, results, before, uparent>>

UploadRoot ==
    /\ upc = "root"
    /\ UploadPage(todo[1][1], todo[1][2], TRUE)

UploadSubtree ==
    /\ upc = "walk"
    /\ todo # <<>>
    /\ UploadPage(todo[1][1], todo[1][2], FALSE)

\* upload_tree, lines 88-89: the SyncResult.
UploadTreeReturn ==
    /\ upc = "walk"
    /\ todo = <<>>
    /\ results' = Append(results,
            [run |-> runs, processed_pages |-> Len(lparent),
             created_pages |-> created, updated_pages |-> updated,
             versions |-> [id \in DOMAIN remote |-> remote[id].version],
             cached |-> [i \in DOMAIN ldisk |-> ldisk[i].version]])
    /\ upc' = "returned"
    /\ UNCHANGED <<rvars, uframe, lparent, ldisk, lmem, todo, created, updated, runs,
                   before, outcome, returned, sent, uparent>>

UploadNext == UploadTreeBegin \/ UploadRoot \/ UploadSubtree \/ UploadTreeReturn

SpecUpload == UploadInit /\ [][UploadNext]_vars

-----------------------------------------------------------------------------
(* C2 - C7: upload_tree *)

LastResult == results[Len(results)]

\* C2: the parent id of every write request for a non-root local page is the
\* id the remote returned for the write of its local parent in this call.
C2_ParentPropagation ==
    \A k \in 1..Len(sent) :
        LET node == sent[k].node
        IN  (sent[k].kind \in {"create", "update"} /\ lparent[node] # 0)
            => /\ lparent[node] \in DOMAIN returned
               /\ sent[k].parent_id = returned[lparent[node]].id

\* A finished upload of root -> A -> B whose root was created remotely as
\* "100" while A and B cached another parent id.
C2_Witness ==
    /\ upc = "returned"
    /\ Len(lparent) = 3 /\ lparent[2] = 1 /\ lparent[3] = 2
    /\ before[1].confluence_id = None
    /\ returned[1].id = "100"
    /\ before[2].parent_id = StaleParent /\ before[3].parent_id = StaleParent
    /\ \E k \in 1..Len(sent) : sent[k].node = 2 /\ sent[k].parent_id = "100"
    /\ \E k \in 1..Len(sent) : sent[k].node = 3 /\ sent[k].parent_id = returned[2].id

\* C3: the created_pages of the returned SyncResult is the number of local
\* pages that had no remote identifier when the upload started.
C3_CreatedCount ==
    upc = "returned" =>
        LastResult.created_pages =
            Cardinality({i \in DOMAIN before : ~TruthyStr(before[i].confluence_id)})

\* C4: every local page that had a remote identifier and a version lower
\* than the version its write returned adds one to updated_pages.
C4_UpdatedCount ==
    upc = "returned" =>
        LastResult.updated_pages >=
            Cardinality({i \in DOMAIN before :
                /\ TruthyStr(before[i].confluence_id)
                /\ before[i].version # NoVersion
                /\ returned[i].version > before[i].version})

\* The local pages that named a remote identifier but no version when the
\* upload started.
Unversioned ==
    {i \in DOMAIN before :
        TruthyStr(before[i].confluence_id) /\ before[i].version = NoVersion}

\* C5: a page with a cached identifier and no cached version is classified
\* neither created nor updated: the two counters are those of the other
\* pages, and processed_pages counts it.
C5_Unclassified ==
    upc = "returned" =>
        /\ \A i \in Unversioned : outcome[i] = "none"
        /\ LastResult.created_pages =
              Cardinality({j \in DOMAIN before \ Unversioned : outcome[j] = "created"})
        /\ LastResult.updated_pages =
              Cardinality({j \in DOMAIN before \ Unversioned : outcome[j] = "updated"})
        /\ LastResult.processed_pages = Cardinality(DOMAIN before)

\* A returned upload with such a page below the root.
C5_Witness ==
    /\ upc = "returned"
    /\ \E i \in Unversioned : i # 1

\* C6: an upload_tree that follows a successful one reports no created and
\* no updated page.
C6_SecondRunReportsNothing ==
    \A k \in 2..Len(results) :
        results[k].run = results[k - 1].run + 1
        => results[k].created_pages = 0 /\ results[k].updated_pages = 0

\* Two uploads in a row returned, over a tree of at least two pages.
C6_Witness ==
    /\ Len(results) >= 2
    /\ results[2].run = results[1].run + 1
    /\ results[2].processed_pages >= 2

\* C7: the second of two successful uploads in a row leaves every remote
\* version and every cached version as the first left it.
C7_VersionsUnchanged ==
    \A k \in 2..Len(results) :
        results[k].run = results[k - 1].run + 1
        => /\ \A id \in DOMAIN results[k - 1].versions :
                 results[k].versions[id] = results[k - 1].versions[id]
           /\ results[k].cached = results[k - 1].cached

-----------------------------------------------------------------------------
(* C13, C14, C17 - C19: upload_tree *)

\* The local pages in pre-order.
RECURSIVE PreOrderAll(_)
PreOrderAll(nodes) ==
    IF nodes = <<>> THEN <<>>
    ELSE <<Head(nodes)>> \o PreOrderAll(ChildrenOf(Head(nodes)) \o Tail(nodes))

\* A sequence without its adjacent repetitions.
RECURSIVE Dedup(_)
Dedup(q) ==
    IF Len(q) <= 1 THEN q
    ELSE IF q[1] = q[2] THEN Dedup(Tail(q))
    ELSE <<q[1]>> \o Dedup(Tail(q))

\* The pages this call made requests for, in the order of their requests.
Walked == Dedup([k \in 1..Len(sent) |-> sent[k].node])

\* The requests of this call for one page.
RequestsFor(node) == SelectSeq(sent, LAMBDA r : r.node = node)

\* C13: when a request for the k-th page in pre-order fails, it is the last
\* request upload_tree makes; the pages requested for are the first k in
\* pre-order; the page.md of the k-th and of every later page is as it was;
\* each of the k-1 earlier pages is on the remote and in its page.md with
\* the id and version the remote returned.
C13_FailureStopsWalk ==
    upc = "raised" =>
        LET order == PreOrderAll(<<1>>)
            k == Len(Walked)
        IN  /\ k >= 1
            /\ Walked = SubSeq(order, 1, k)
            /\ ~sent[Len(sent)].ok
            /\ \A j \in 1..(Len(sent) - 1) : sent[j].ok
            /\ \A i \in k..Len(order) :
                  /\ ldisk[order[i]] = before[order[i]]
                  /\ order[i] \notin DOMAIN returned
            /\ \A i \in 1..(k - 1) :
                  LET page == returned[order[i]]
                  IN  /\ page.id \in DOMAIN remote
                      /\ remote[page.id].version = page.version
                      /\ ldisk[order[i]].confluence_id = page.id
                      /\ ldisk[order[i]].version = page.version

\* A request for the second of three pages failed after the root was
\* written at a version its page.md did not have.
C13_Witness ==
    /\ upc = "raised"
    /\ Len(lparent) = 3
    /\ Len(Walked) = 2
    /\ returned[1].version # before[1].version

\* C14: the version number of every update request is the current version
\* the client was given or fetched.
C14_NoVersionArithmetic ==
    \A k \in 1..Len(sent) :
        sent[k].kind = "update" => sent[k].number = sent[k].current

\* The parent the engine declares for a page: for the root the caller's, else
\* the cached one; for another page the id returned for its parent.
DeclaredParent(node) ==
    LET parent == IF lparent[node] = 0
                  THEN OrElse(uparent, before[node].parent_id)
                  ELSE returned[lparent[node]].id
    IN  IF TruthyStr(parent) THEN parent ELSE None

\* The requests in which the engine's own parent argument goes out: the
\* update of a page with a cached id, the title search and the create.
\* (The update ensure_page makes of a page it found carries that page's own
\* parent when the engine passed none.)
CarriesEngineParent(r) ==
    \/ r.kind \in {"search", "create"}
    \/ r.kind = "update" /\ TruthyStr(before[r.node].confluence_id)

C18_FetchOnce ==
    \A node \in {sent[k].node : k \in 1..Len(sent)} :
        LET reqs == RequestsFor(node)
            gets == {i \in 1..Len(reqs) : reqs[i].kind = "get"}
        IN  IF node \in Unversioned
            THEN /\ gets = {1}
                 /\ reqs[1].page_id = before[node].confluence_id
                 /\ Len(reqs) <= 2
                 /\ Len(reqs) = 2 =>
                       /\ reqs[2].kind = "update"
                       /\ reqs[2].page_id = reqs[1].page_id
                       /\ reqs[2].current = reqs[1].version
            ELSE gets = {}

\* An upload returned in which a page with an id and no version was fetched
\* at the remote's version and then updated, and a page with a cached
\* version was updated.
C18_Witness ==
    /\ upc = "returned"
    /\ \E node \in Unversioned :
          LET reqs == RequestsFor(node)
          IN  /\ Len(reqs) = 2
              /\ reqs[1].kind = "get" /\ reqs[1].version = InitialVersion
              /\ reqs[2].kind = "update" /\ reqs[2].ok
    /\ \E node \in DOMAIN before \ Unversioned : before[node].version # NoVersion

\* C19: a page without a cached id is bound to (updates) an existing remote
\* page only when the page found has its title and its last ancestor is the
\* declared parent, none when none is declared; otherwise a page is created.
C19_BindAtExactParent ==
    \A k \in 1..Len(sent) :
        (sent[k].kind = "search" /\ sent[k].ok) =>
            LET node == sent[k].node
                atParent == /\ sent[k].page_id # None
                            /\ remote[sent[k].page_id].title = before[node].title
                            /\ sent[k].ancestor = DeclaredParent(node)
            IN  /\ ~TruthyStr(before[node].confluence_id)
                /\ k < Len(sent)
                /\ sent[k + 1].node = node
                /\ IF atParent
                   THEN sent[k + 1].kind = "update" /\ sent[k + 1].page_id = sent[k].page_id
                   ELSE sent[k + 1].kind = "create"

-----------------------------------------------------------------------------
(* C21 - C23: upload_tree *)

\* The create and update requests of this call, in order.
Writes == SelectSeq(sent, LAMBDA r : r.kind \in {"create", "update"})

WriteNodes == [k \in 1..Len(Writes) |-> Writes[k].node]

\* C21: the pages upload_tree has issued a write for are, in the order of
\* the writes and one write each, the first pages of the local tree in
\* pre-order, and all of them when the call returns; every write but a
\* failed last one has been answered and saved in the page's page.md before
\* the next is issued.
C21_OneWritePerPageInPreOrder ==
    LET order == PreOrderAll(<<1>>)
    IN  /\ Len(Writes) <= Len(order)
        /\ WriteNodes = SubSeq(order, 1, Len(Writes))
        /\ upc = "returned" => WriteNodes = order
        /\ \A k \in 1..Len(Writes) :
              /\ k < Len(Writes) => Writes[k].ok
              /\ Writes[k].ok =>
                    /\ Writes[k].node \in DOMAIN returned
                    /\ ldisk[Writes[k].node].confluence_id = returned[Writes[k].node].id
                    /\ ldisk[Writes[k].node].version = returned[Writes[k].node].version

\* An upload returned over a root with two children, the first of them
\* synced at the remote's version and unchanged: root, first child, second
\* child were written.
C21_Witness ==
    /\ upc = "returned"
    /\ Len(lparent) = 3 /\ lparent[2] = 1 /\ lparent[3] = 1
    /\ before[2].version = InitialVersion
    /\ before[2].body = "canon"
    /\ WriteNodes = <<1, 2, 3>>
    /\ Writes[2].kind = "update"

\* The write request of this call for a page.
WriteFor(node) ==
    LET reqs == RequestsFor(node)
    IN  reqs[CHOOSE i \in 1..Len(reqs) : reqs[i].kind \in {"create", "update"}]

\* An Optional[str] parent id as it goes into a request: None when falsy.
Submitted(parent_id) == IF TruthyStr(parent_id) THEN parent_id ELSE None

\* C22: every page written in this call has, in memory and in its page.md,
\* the id and the version the remote returned for its write, and the parent
\* id that the write request carried; this holds from the moment the write
\* returns, before the next request.
C22_SavedAsReturned ==
    \A node \in DOMAIN returned :
        /\ lmem[node] = ldisk[node]
        /\ ldisk[node].confluence_id = returned[node].id
        /\ ldisk[node].version = returned[node].version
        /\ Submitted(ldisk[node].parent_id) = WriteFor(node).parent_id

\* The local pages that named a remote identifier and a version when the
\* upload started.
Versioned ==
    {i \in DOMAIN before :
        TruthyStr(before[i].confluence_id) /\ before[i].version # NoVersion}

\* C23: the update of a page with a cached id and version is made from the
\* cached version, with no read before it; when the remote page is at a
\* later version the update is rejected, the remote page stays at its
\* version, and the request is the last of the upload, which raises.  The
\* update of any other page is made from the version the request just
\* before it read from the remote, which is the version the remote has.
C23_StaleUpdateRejected ==
    \A k \in 1..Len(sent) :
        sent[k].kind = "update" =>
            IF sent[k].node \in Versioned
            THEN /\ sent[k].current = before[sent[k].node].version
                 /\ RequestsFor(sent[k].node) = <<sent[k]>>
                 /\ sent[k].had > sent[k].current =>
                       /\ ~sent[k].ok
                       /\ k = Len(sent)
                       /\ upc = "raised"
                       /\ remote[sent[k].page_id].version = sent[k].had
                       /\ sent[k].node \notin DOMAIN returned
            ELSE /\ k > 1
                 /\ sent[k - 1].node = sent[k].node
                 /\ sent[k - 1].kind \in {"get", "search"}
                 /\ sent[k - 1].page_id = sent[k].page_id
                 /\ sent[k - 1].version = sent[k].current
                 /\ sent[k].had = sent[k].current

\* The root was written, then the update of a child cached at a version
\* older than the remote's was rejected; a page without a cached version was
\* read and updated before that.
C23_Witness ==
    /\ upc = "raised"
    /\ Len(sent) >= 3
    /\ LET last == sent[Len(sent)]
       IN  /\ last.kind = "update"
           /\ last.node \in Versioned
           /\ last.node # 1
           /\ last.had = InitialVersion
           /\ last.current = InitialVersion - 1
           /\ remote[last.page_id].version = InitialVersion
    /\ sent[1].kind = "get" /\ sent[2].kind = "update" /\ sent[2].ok

-----------------------------------------------------------------------------
(* resolve_page_directory (local/repository.py).  A path is the sequence of *)
(* its components below "/", a component a sequence of characters.          *)

PAGE_FILENAME == <<"p", "a", "g", "e", ".", "m", "d">>

DotDot == <<".", ".">>

\* Path.parent
ParentOf(path) == IF path = <<>> THEN <<>> ELSE SubSeq(path, 1, Len(path) - 1)

\* Path.resolve() on a file system without symbolic links: ".." steps up
\* and stays at "/".
RECURSIVE ResolveFrom(_, _)
ResolveFrom(acc, parts) ==
    IF parts = <<>> THEN acc
    ELSE IF Head(parts) = DotDot THEN ResolveFrom(ParentOf(acc), Tail(parts))
    ELSE ResolveFrom(Append(acc, Head(parts)), Tail(parts))

Resolve(path) == ResolveFrom(<<>>, path)

\* str(path): the characters of "/a/b".
RECURSIVE JoinParts(_)
JoinParts(path) ==
    IF path = <<>> THEN <<>> ELSE <<"/">> \o Head(path) \o JoinParts(Tail(path))

PathStr(path) == IF path = <<>> THEN <<"/">> ELSE JoinParts(path)

\* str.startswith
StartsWith(str, prefix) == IsPrefix(prefix, str)

\* resolve_page_directory(raw_path): the exception raised or the directory
\* returned.
ResolvePageDirectory(root, dirs, files, raw) ==
    LET base == Resolve(root)
        candidate == Resolve(IF raw.absolute THEN raw.parts ELSE base \o raw.parts)
        directory == IF candidate \in dirs THEN candidate ELSE ParentOf(candidate)
        Outcome(kind) == [kind |-> kind, raw |-> raw, candidate |-> candidate,
                          dir |-> directory]
    IN  IF ~StartsWith(PathStr(candidate), PathStr(base)) THEN Outcome("ValueError")
        ELSE IF candidate \notin dirs \cup files THEN Outcome("FileNotFoundError")
        ELSE IF Append(directory, PAGE_FILENAME) \notin files
        THEN Outcome("FileNotFoundError")
        ELSE Outcome("ok")

\* The file systems of the path specification: the repository root /r or
\* /r/s, a sibling /rx of /r, and a page.md in some of the directories.
PathNames == {<<"r">>, <<"r", "x">>, <<"s">>}

DirUniverse ==
    {<< <<"r">> >>, << <<"r", "x">> >>, << <<"r">>, <<"s">> >>, << <<"r", "x">>, <<"s">> >>}

RECURSIVE SeqsUpTo(_, _)
SeqsUpTo(S, n) ==
    IF n = 0 THEN {<<>>}
    ELSE LET shorter == SeqsUpTo(S, n - 1)
         IN  shorter \cup {Append(q, x) : q \in shorter, x \in S}

RawPaths ==
    [absolute : BOOLEAN,
     parts : SeqsUpTo(PathNames \cup {DotDot, PAGE_FILENAME}, MaxParts)]

PathInit ==
    /\ RemoteIdle
    /\ TraversalIdle
    /\ UploadIdle
    /\ StoreIdle
    /\ DownloadIdle
    /\ ReadIdle
    /\ SlugIdle
    /\ proot \in {<< <<"r">> >>, << <<"r">>, <<"s">> >>}
    /\ pdirs \in {D \in SUBSET DirUniverse : \A d \in D : Len(d) > 1 => ParentOf(d) \in D}
    /\ \E P \in SUBSET pdirs : pfiles = {Append(d, PAGE_FILENAME) : d \in P}
    /\ presult = [kind |-> "none"]

ResolvePageDirectoryCall ==
    /\ \E raw \in RawPaths :
          presult' = ResolvePageDirectory(proot, pdirs, pfiles, raw)
    /\ UNCHANGED <<proot, pdirs, pfiles, pframe>>

PathNext == ResolvePageDirectoryCall

SpecPath == PathInit /\ [][PathNext]_vars

-----------------------------------------------------------------------------
(* C8 *)

\* The path is the root or lies below it.
InsideRoot(path) == IsPrefix(Resolve(proot), path)

\* C8: resolve_page_directory raises the path-safety error for every path
\* that resolves outside the repository root, and returns no directory
\* outside it.
C8_PathSafety ==
    presult.kind # "none" =>
        /\ ~InsideRoot(presult.candidate) => presult.kind = "ValueError"
        /\ presult.kind = "ok" => InsideRoot(presult.dir)

-----------------------------------------------------------------------------
(* slugify (local/naming.py), on sequences of characters *)

UpperLetters ==
    <<"A", "B", "C", "D", "E", "F", "G", "H", "I", "J", "K", "L", "M",
      "N", "O", "P", "Q", "R", "S", "T", "U", "V", "W", "X", "Y", "Z">>

LowerLetters ==
    <<"a", "b", "c", "d", "e", "f", "g", "h", "i", "j", "k", "l", "m",
      "n", "o", "p", "q", "r", "s", "t", "u", "v", "w", "x", "y", "z">>

Digits == <<"0", "1", "2", "3", "4", "5", "6", "7", "8", "9">>

Whitespace == {" ", "\t", "\n"}

\* The characters _NON_WORD_RE does not match: [a-z0-9].
WordChars == SeqToSet(LowerLetters) \cup SeqToSet(Digits)

\* Characters outside ASCII, each written as one element named by its code
\* point: KELVIN SIGN, LATIN CAPITAL LETTER I WITH DOT ABOVE, COMBINING DOT
\* ABOVE and LATIN SMALL LETTER E WITH ACUTE.
KelvinSign == "U+212A"

CapitalIDot == "U+0130"

CombiningDot == "U+0307"

EAcute == "U+00E9"

\* str.lower(), one character: A-Z go to a-z and the Kelvin sign goes to the
\* ASCII letter k.
LowerOf ==
    [c \in SeqToSet(UpperLetters) |->
        LowerLetters[CHOOSE i \in 1..Len(UpperLetters) : UpperLetters[i] = c]]
    @@ (KelvinSign :> "k")

LowerChar(c) == IF c \in DOMAIN LowerOf THEN LowerOf[c] ELSE c

\* str.lower(): the capital I with dot above becomes two characters, i and
\* the combining dot above; every other character becomes one.
RECURSIVE Lower(_)
Lower(str) ==
    IF str = <<>> THEN <<>>
    ELSE IF Len(str) = 1
    THEN (IF str[1] = CapitalIDot THEN <<"i", CombiningDot>>
          ELSE <<LowerChar(str[1])>>)
    ELSE LET half == Len(str) \div 2
         IN  Lower(SubSeq(str, 1, half)) \o Lower(SubSeq(str, half + 1, Len(str)))

\* str.lstrip(chars), str.rstrip(chars), str.strip(chars)
LStrip(str, chars) ==
    IF \A i \in 1..Len(str) : str[i] \in chars THEN <<>>
    ELSE SubSeq(str,
                CHOOSE i \in 1..Len(str) :
                    str[i] \notin chars /\ \A j \in 1..(i - 1) : str[j] \in chars,
                Len(str))

RStrip(str, chars) ==
    IF \A i \in 1..Len(str) : str[i] \in chars THEN <<>>
    ELSE SubSeq(str, 1,
                CHOOSE i \in 1..Len(str) :
                    str[i] \notin chars /\ \A j \in (i + 1)..Len(str) : str[j] \in chars)

Strip(str, chars) == RStrip(LStrip(str, chars), chars)

\* A character is kept by the substitution: it is not the empty string that
\* marks a dropped one.
Kept(c) == c # ""

\* _NON_WORD_RE.sub("-", value): every maximal run of characters outside
\* [a-z0-9] becomes one hyphen, which stands where the run begins.
SubNonWord(str) ==
    SelectSeq([i \in 1..Len(str) |->
                  IF str[i] \in WordChars THEN str[i]
                  ELSE IF i = 1 \/ str[i - 1] \in WordChars THEN "-"
                  ELSE ""],
              Kept)

\* The slug given for a title that leaves nothing: fallback="page".
Fallback == <<"p", "a", "g", "e">>

\* value[:120]
MaxSlugLen == 120

NoTruncate(str, n) == str

Truncate(str, n) == SubSeq(str, 1, IF Len(str) < n THEN Len(str) ELSE n)

slugify(title) ==
    LET lowered == Strip(Lower(title), Whitespace)
        hyphened == Strip(SubNonWord(lowered), {"-"})
    IN  IF hyphened = <<>> THEN Fallback
        ELSE LET visible == IF Head(hyphened) = "."
                            THEN (IF LStrip(hyphened, {"."}) = <<>> THEN Fallback
                                  ELSE LStrip(hyphened, {"."}))
                            ELSE hyphened
             IN  Truncate(visible, MaxSlugLen)

\* str(counter), the decimal digits of a natural number.
RECURSIVE Decimal(_)
Decimal(n) ==
    IF n < 10 THEN <<Digits[n + 1]>>
    ELSE Decimal(n \div 10) \o <<Digits[(n % 10) + 1]>>

-----------------------------------------------------------------------------
(* slugify called on its own.  A title is a run of the letter a, empty or   *)
(* about as long as the limit of value[:120], followed by a few characters  *)
(* of SlugChars.                                                            *)

\* The longest tail of a title.
MaxTail == 3

SlugChars == {"A", "7", " ", "-", ".", KelvinSign, CapitalIDot, EAcute}

PadLengths == {0, MaxSlugLen - 2, MaxSlugLen - 1}

Pad(n) == [i \in 1..n |-> "a"]

SlugTitles ==
    {Pad(n) \o tail : n \in PadLengths, tail \in SeqsUpTo(SlugChars, MaxTail)}

SlugInit ==
    /\ gtitle \in SlugTitles
    /\ gslug = [called |-> FALSE]
    /\ RemoteIdle
    /\ TraversalIdle
    /\ UploadIdle
    /\ PathIdle
    /\ StoreIdle
    /\ DownloadIdle
    /\ ReadIdle

\* slugify(gtitle)
SlugifyCall ==
    /\ ~gslug.called
    /\ gslug' = [called |-> TRUE, value |-> slugify(gtitle)]
    /\ UNCHANGED <<gtitle, gframe>>

SlugNext == SlugifyCall

SpecSlug == SlugInit /\ [][SlugNext]_vars

-----------------------------------------------------------------------------
(* C30 *)

\* The ASCII letters and digits.
AsciiAlnum ==
    SeqToSet(UpperLetters) \cup SeqToSet(LowerLetters) \cup SeqToSet(Digits)

\* A slug is not empty, has at most 120 characters and is made only of
\* lowercase ASCII letters, digits and hyphens.
SlugShape(slug) ==
    /\ slug # <<>>
    /\ Len(slug) <= MaxSlugLen
    /\ \A i \in 1..Len(slug) : slug[i] \in WordChars \cup {"-"}

\* C30 as stated: slugify returns a non-empty string of at most 120
\* characters made only of lowercase ASCII letters, digits and hyphens, and
\* returns "page" when the title contains no ASCII letter or digit.
C30_PageWithoutAsciiWord ==
    gslug.called =>
        /\ SlugShape(gslug.value)
        /\ (\A i \in 1..Len(gtitle) : gtitle[i] \notin AsciiAlnum)
               => gslug.value = Fallback

\* C30, amended: slugify returns a non-empty string of at most 120
\* characters made only of lowercase ASCII letters, digits and hyphens, and
\* returns "page" when the lower-cased title contains no character of
\* [a-z0-9].
C30_PageWithoutLoweredWord ==
    gslug.called =>
        /\ SlugShape(gslug.value)
        /\ (\A c \in SeqToSet(Lower(gtitle)) : c \notin WordChars)
               => gslug.value = Fallback

\* A title longer than the limit, with a character outside ASCII in it, has
\* been cut to a slug of 120 characters.
C30_Witness ==
    /\ gslug.called
    /\ Len(gtitle) > MaxSlugLen
    /\ EAcute \in SeqToSet(gtitle)
    /\ Len(gslug.value) = MaxSlugLen

-----------------------------------------------------------------------------
(* C31 *)

\* A slug neither starts nor ends with a hyphen and has no two hyphens in a
\* row.
Canonical(slug) ==
    /\ slug # <<>> => slug[1] # "-" /\ slug[Len(slug)] # "-"
    /\ \A i \in 1..(Len(slug) - 1) : ~(slug[i] = "-" /\ slug[i + 1] = "-")

\* C31: slugify is idempotent and its result is in canonical form: for every
\* title t, slugify(slugify(t)) = slugify(t), and the result neither starts
\* nor ends with a hyphen nor contains two consecutive hyphens, titles longer
\* than the 120 characters of the truncation included.
C31_IdempotentCanonical ==
    gslug.called =>
        /\ slugify(gslug.value) = gslug.value
        /\ Canonical(gslug.value)

-----------------------------------------------------------------------------
(* The local directory store (local/repository.py).  A directory is the     *)
(* sequence of its names below self.root; the root itself is <<>>.          *)

\* self._slug_usage[directory] of the defaultdict(set).
UsedIn(usage, dir) == IF dir \in DOMAIN usage THEN usage[dir] ELSE {}

RegisterNothing(dirs) == <<>>

\* _register_existing_slugs: the names of the subdirectories of every
\* directory below the root.
RegisterExistingSlugs(dirs) ==
    LET below == dirs \ {<<>>}
    IN  [p \in {ParentOf(d) : d \in below} |->
            {d[Len(d)] : d \in {x \in below : ParentOf(x) = p}}]

\* The while loop of _unique_slug from a given counter.
RECURSIVE FirstFree(_, _, _)
FirstFree(base, counter, used) ==
    LET slug == base \o <<"-">> \o Decimal(counter)
    IN  IF slug \in used THEN FirstFree(base, counter + 1, used) ELSE slug

UniqueSlugFromOne(title, used) ==
    LET base == slugify(title)
    IN  IF base \in used THEN FirstFree(base, 1, used) ELSE base

\* _unique_slug: the slug, then slug-2, slug-3, ... until one is unused.
UniqueSlug(title, used) ==
    LET base == slugify(title)
    IN  IF base \in used THEN FirstFree(base, 2, used) ELSE base

\* _dump_page: the frontmatter and the converted body.
DumpPage(page) ==
    [title |-> page.title, space_key |-> page.space_key,
     confluence_id |-> page.id, parent_id |-> page.parent_id,
     version |-> page.version, body |-> StorageToMarkdown(page.body)]

\* The directories _collect_existing_directories' walk loads: those with a
\* page.md in them and in every directory above them.
WalkedDirs(dirs, files) ==
    {d \in dirs : \A k \in 0..Len(d) : SubSeq(d, 1, k) \in DOMAIN files}

CollectNoDirectories(dirs, files) == <<>>

\* _collect_existing_directories: confluence_id -> directory.  The walk
\* records a directory before its subdirectories, so of two directories one
\* above the other that store the same id the lower one stays.
CollectExistingDirectories(dirs, files) ==
    IF <<>> \notin DOMAIN files THEN <<>>
    ELSE LET walked == WalkedDirs(dirs, files)
             Holds(d, id) == files[d].confluence_id = id
         IN  [id \in {files[d].confluence_id : d \in walked} \ {None, ""} |->
                CHOOSE d \in walked :
                    /\ Holds(d, id)
                    /\ ~\E e \in walked : e # d /\ Holds(e, id) /\ IsPrefix(d, e)]

\* The names of the subdirectories of a directory.
NamesIn(dirs, parent) ==
    {d[Len(d)] : d \in {x \in dirs \ {<<>>} : ParentOf(x) = parent}}

\* What dict.get(key) returns for a missing key; no directory has this name.
NoDirectory == << <<"/">> >>

LocateParentOrRoot(idmap, existing, parent_id) ==
    IF parent_id \in DOMAIN idmap THEN idmap[parent_id]
    ELSE IF parent_id \in DOMAIN existing THEN existing[parent_id]
    ELSE <<>>

\* parent_dir: id_to_directory.get(page.parent_id), else
\* existing_directories.get(page.parent_id).
LocateParent(idmap, existing, parent_id) ==
    IF parent_id \in DOMAIN idmap THEN idmap[parent_id]
    ELSE IF parent_id \in DOMAIN existing THEN existing[parent_id]
    ELSE NoDirectory

\* The loop of write_tree over the descendants.  st is the file system, the
\* slug registry and id_to_directory so far; raised tells that the
\* RuntimeError for an unknown parent ended the call.
RECURSIVE WriteDescendants(_, _, _)
WriteDescendants(st, existing, pages) ==
    IF pages = <<>> THEN st
    ELSE LET page == Head(pages)
             parent_dir == LocateParent(st.idmap, existing, page.parent_id)
         IN  IF parent_dir = NoDirectory
             THEN [st EXCEPT !.raised = TRUE]
             ELSE
             LET reuse == page.id \in DOMAIN existing
                 used == UsedIn(st.usage, parent_dir)
                 slug == UniqueSlug(page.title, used)
                 directory == IF reuse THEN existing[page.id]
                              ELSE Append(parent_dir, slug)
                 next ==
                    [dirs |-> st.dirs \cup {directory},
                     files |-> (directory :> DumpPage(page)) @@ st.files,
                     usage |-> IF reuse THEN st.usage
                               ELSE (parent_dir :> (used \cup {slug})) @@ st.usage,
                     idmap |-> (page.id :> directory) @@ st.idmap,
                     allocs |-> IF reuse THEN st.allocs
                                ELSE Append(st.allocs,
                                        [parent |-> parent_dir, title |-> page.title,
                                         slug |-> slug, used |-> used,
                                         taken |-> NamesIn(st.dirs, parent_dir)]),
                     raised |-> FALSE]
             IN  WriteDescendants(next, existing, Tail(pages))

\* write_tree(root_page, descendants)
WriteTree(dirs, files, usage, log, root_page, descendants) ==
    LET existing == CollectExistingDirectories(dirs \cup {<<>>}, files)
        start == [dirs |-> dirs \cup {<<>>},
                  files |-> (<<>> :> DumpPage(root_page)) @@ files,
                  usage |-> usage,
                  idmap |-> (root_page.id :> <<>>),
                  allocs |-> log,
                  raised |-> FALSE]
    IN  WriteDescendants(start, existing, descendants)

\* The order of sorted(parent.iterdir()): names compared character by
\* character in code point order.
SlugAlphabet == <<"-", ".">> \o Digits \o LowerLetters

Rank(c) == CHOOSE i \in 1..Len(SlugAlphabet) : SlugAlphabet[i] = c

RECURSIVE NameLess(_, _)
NameLess(a, b) ==
    IF b = <<>> THEN FALSE
    ELSE IF a = <<>> THEN TRUE
    ELSE IF Head(a) = Head(b) THEN NameLess(Tail(a), Tail(b))
    ELSE Rank(Head(a)) < Rank(Head(b))

RECURSIVE SortNames(_)
SortNames(names) ==
    IF names = {} THEN <<>>
    ELSE LET least == CHOOSE x \in names : \A y \in names \ {x} : NameLess(x, y)
         IN  <<least>> \o SortNames(names \ {least})

\* The orders in which a set can be listed.
Orderings(S) ==
    {q \in [1..Cardinality(S) -> S] : \A i, j \in 1..Cardinality(S) : q[i] = q[j] => i = j}

\* parent.iterdir(), the subdirectories among its entries: the operating
\* system lists them in an order of its own, here the order in which listed
\* holds their names.
IterDir(dirs, parent, listed) ==
    SelectSeq(listed, LAMBDA name : name \in NamesIn(dirs, parent))

IterPageDirectoriesUnsorted(dirs, parent, listed) ==
    [i \in 1..Len(IterDir(dirs, parent, listed)) |->
        Append(parent, IterDir(dirs, parent, listed)[i])]

\* iter_page_directories: the subdirectories of sorted(parent.iterdir()).
IterPageDirectories(dirs, parent, listed) ==
    LET names == SortNames(SeqToSet(IterDir(dirs, parent, listed)))
    IN  [i \in 1..Len(names) |-> Append(parent, names[i])]

\* directory.name; the name of the root directory is not part of the model.
RootName == <<"r", "o", "o", "t">>

DirectoryName(directory) ==
    IF directory = <<>> THEN RootName ELSE directory[Len(directory)]

\* _read_directory: the LocalPage of one directory (its children are the
\* pages of IterPageDirectories); the title defaults to the directory name.
ReadMeta(file, directory) ==
    [title |-> IF file.title = NoTitle THEN DirectoryName(directory) ELSE file.title,
     space_key |-> file.space_key,
     confluence_id |-> file.confluence_id, parent_id |-> file.parent_id,
     version |-> file.version, body |-> file.body]

\* The directories in the order _read_directory loads them: a directory,
\* then each of its subdirectories with all below it.
RECURSIVE ReadOrder(_, _, _)
ReadOrder(dirs, listed, pending) ==
    IF pending = <<>> THEN <<>>
    ELSE <<Head(pending)>>
         \o ReadOrder(dirs, listed,
                      IterPageDirectories(dirs, Head(pending), listed) \o Tail(pending))

\* read_tree: FileNotFoundError when the root has no page.md (line 94) or
\* when frontmatter.load finds none in a directory below it (line 99), at
\* the first such directory in loading order; else the page of every
\* directory and its list of children.
ReadTree(dirs, files, listed) ==
    LET order == ReadOrder(dirs, listed, <<<<>>>>)
        missing == {i \in 1..Len(order) : order[i] \notin DOMAIN files}
        Failure(at) == [ok |-> FALSE, error |-> "FileNotFoundError", at |-> at,
                        nodes |-> <<>>, children |-> <<>>]
    IN  IF <<>> \notin DOMAIN files THEN Failure(<<>>)
        ELSE IF missing # {}
        THEN Failure(order[CHOOSE i \in missing : \A j \in missing : i <= j])
        ELSE [ok |-> TRUE, error |-> "none", at |-> <<>>,
              nodes |-> [d \in dirs |-> ReadMeta(files[d], d)],
              children |-> [d \in dirs |-> IterPageDirectories(dirs, d, listed)]]

\* list(iter_page_tree(root)) as download_tree passes it to write_tree.
RECURSIVE IterPageTree(_, _, _)
IterPageTree(rem, order, pending) ==
    IF pending = <<>> THEN <<>>
    ELSE LET pop == PopLeft(pending)
             page == GetPage(rem, pop[1])
         IN  <<page>> \o IterPageTree(rem, order,
                            pop[2] \o GetChildPages(rem, order, page.id))

-----------------------------------------------------------------------------
(* The store specification: downloads of the tree below one root page into  *)
(* one directory that does not exist at first, with one rename, move or     *)
(* deletion of a page by another user at some point.                        *)

ReleaseNotes == <<"R", "e", "l", "e", "a", "s", "e", " ", "N", "o", "t", "e", "s">>

StoreTitles == {ReleaseNotes, ReleaseNotes \o <<" ", "2">>}

StoreRoot == IdOf(1)

StoreParents ==
    {p \in [1..MaxStorePages -> 0..MaxStorePages] :
        p[1] = 0 /\ \A i \in 2..MaxStorePages : p[i] \in 1..(i - 1)}

StoreRemote(p, titles) ==
    [id \in {IdOf(i) : i \in 1..MaxStorePages} |->
        LET i == CHOOSE k \in 1..MaxStorePages : IdOf(k) = id
        IN  [title |-> IF i = 1 THEN <<"H", "o", "m", "e">> ELSE titles[i],
             space |-> "DOC", version |-> 1, body |-> "s",
             parent |-> IF p[i] = 0 THEN None ELSE IdOf(p[i])]]

StoreInit ==
    /\ TraversalIdle
    /\ UploadIdle
    /\ PathIdle
    /\ DownloadIdle
    /\ ReadIdle
    /\ SlugIdle
    /\ \E p \in StoreParents : \E titles \in [2..MaxStorePages -> StoreTitles] :
          remote = StoreRemote(p, titles)
    /\ rorder = [i \in 1..MaxStorePages |-> IdOf(i)]
    /\ faulted = FALSE
    /\ sdirs = {}
    /\ sfiles = <<>>
    /\ susage = RegisterExistingSlugs(sdirs)
    /\ swrites = 0
    /\ schanged = FALSE
    /\ allocs = <<>>
    /\ lastWrite = [called |-> FALSE]

\* History: the directory and the number of allocations when a write_tree
\* call starts, and the pages of the call before it when that one succeeded.
PriorWrite ==
    [dirs |-> sdirs, files |-> sfiles, allocs |-> Len(allocs),
     pages |-> IF lastWrite.called /\ ~lastWrite.raised
               THEN <<lastWrite.root>> \o lastWrite.descendants ELSE <<>>]

\* self.repository.write_tree(root, descendants) on the pages the traversal
\* of the root delivers.
WriteTreeCall ==
    /\ swrites < MaxWrites
    /\ LET pages == IterPageTree(remote, rorder, <<StoreRoot>>)
           st == WriteTree(sdirs, sfiles, susage, allocs, Head(pages), Tail(pages))
       IN  /\ sdirs' = st.dirs
           /\ sfiles' = st.files
           /\ susage' = st.usage
           /\ allocs' = st.allocs
           /\ lastWrite' = [called |-> TRUE, root |-> Head(pages),
                            descendants |-> Tail(pages), raised |-> st.raised,
                            idmap |-> st.idmap, prior |-> PriorWrite]
    /\ swrites' = swrites + 1
    /\ UNCHANGED <<rvars, schanged, sframe>>

\* LocalRepository(root): a new store instance on the same directory.
NewStore ==
    /\ susage' = IF <<>> \in sdirs THEN RegisterExistingSlugs(sdirs) ELSE <<>>
    /\ UNCHANGED <<rvars, sdirs, sfiles, swrites, schanged, allocs, lastWrite, sframe>>

\* The pages below a page of the remote space.
RECURSIVE RemoteDescendants(_, _)
RemoteDescendants(rem, id) ==
    LET kids == {c \in DOMAIN rem : rem[c].parent = id}
    IN  kids \cup UNION {RemoteDescendants(rem, c) : c \in kids}

\* Another user renames a page.
RemoteRename ==
    /\ ~schanged
    /\ \E id \in DOMAIN remote \ {StoreRoot} : \E title \in StoreTitles \ {remote[id].title} :
          remote' = [remote EXCEPT ![id].title = title, ![id].version = @ + 1]
    /\ schanged' = TRUE
    /\ UNCHANGED <<rorder, faulted, sdirs, sfiles, susage, swrites, allocs, lastWrite, sframe>>

\* Another user moves a page under another page.
RemoteMove ==
    /\ ~schanged
    /\ \E id \in DOMAIN remote \ {StoreRoot} :
       \E to \in DOMAIN remote \ ({id, remote[id].parent} \cup RemoteDescendants(remote, id)) :
          remote' = [remote EXCEPT ![id].parent = to, ![id].version = @ + 1]
    /\ schanged' = TRUE
    /\ UNCHANGED <<rorder, faulted, sdirs, sfiles, susage, swrites, allocs, lastWrite, sframe>>

\* Another user deletes a page that has no children.
RemoteDelete ==
    /\ ~schanged
    /\ \E id \in DOMAIN remote \ {StoreRoot} :
          /\ RemoteDescendants(remote, id) = {}
          /\ remote' = [k \in DOMAIN remote \ {id} |-> remote[k]]
    /\ schanged' = TRUE
    /\ UNCHANGED <<rorder, faulted, sdirs, sfiles, susage, swrites, allocs, lastWrite, sframe>>

\* Another user creates a page below the root page.
RemoteCreate ==
    /\ ~schanged
    /\ \E parent \in {StoreRoot} \cup RemoteDescendants(remote, StoreRoot) :
       \E title \in StoreTitles :
          LET made == CreatePage(remote, "DOC", title, "s", parent)
          IN  /\ remote' = made.rem
              /\ rorder' = Append(rorder, made.page.id)
    /\ schanged' = TRUE
    /\ UNCHANGED <<faulted, sdirs, sfiles, susage, swrites, allocs, lastWrite, sframe>>

StoreNext ==
    \/ WriteTreeCall
    \/ NewStore
    \/ RemoteRename
    \/ RemoteMove
    \/ RemoteDelete
    \/ RemoteCreate

SpecStore == StoreInit /\ [][StoreNext]_vars

-----------------------------------------------------------------------------
(* C9, C10: the local directory store *)

WrittenPages == <<lastWrite.root>> \o lastWrite.descendants

WrittenIds == {WrittenPages[i].id : i \in 1..Len(WrittenPages)}

WrittenPage(id) ==
    WrittenPages[CHOOSE i \in 1..Len(WrittenPages) : WrittenPages[i].id = id]

\* The tree read_tree returns has exactly one node per written page, with
\* the page's title, under the node of the page's parent.
SameShape(tree) ==
    /\ tree.ok
    /\ \E f \in [WrittenIds -> DOMAIN tree.nodes] :
          /\ \A a, b \in WrittenIds : f[a] = f[b] => a = b
          /\ \A d \in DOMAIN tree.nodes : \E a \in WrittenIds : f[a] = d
          /\ f[lastWrite.root.id] = <<>>
          /\ \A a \in WrittenIds :
                /\ tree.nodes[f[a]].title = WrittenPage(a).title
                /\ a # lastWrite.root.id =>
                      /\ f[a] # <<>>
                      /\ ParentOf(f[a]) = f[WrittenPage(a).parent_id]

\* C9: after a successful write_tree of a breadth-first listing, read_tree
\* returns a tree of the same shape, whatever the directory held before.
C9_WriteThenReadSameShape ==
    (lastWrite.called /\ ~lastWrite.raised) =>
        \A listed \in Orderings(UNION {SeqToSet(d) : d \in sdirs}) :
            SameShape(ReadTree(sdirs, sfiles, listed))

\* The allocations, up to the k-th, made under the k-th one's parent for a
\* page with its title.
SameTitleAllocs(k) ==
    {j \in 1..k : allocs[j].parent = allocs[k].parent /\ allocs[j].title = allocs[k].title}

\* slug, slug-2, ..., slug-n
SuffixedNames(base, n) == {base} \cup {base \o <<"-">> \o Decimal(j) : j \in 2..n}

\* No directory of another page uses one of the names: none did before the
\* first of the allocations, and none was given to another title since.
NamesFree(k) ==
    LET same == SameTitleAllocs(k)
        first == CHOOSE j \in same : \A i \in same : j <= i
        names == SuffixedNames(slugify(allocs[k].title), Cardinality(same))
    IN  /\ allocs[first].used \cap names = {}
        /\ \A j \in first..k :
              (j \notin same /\ allocs[j].parent = allocs[k].parent)
              => allocs[j].slug \notin names

\* C10: of n same-titled siblings allocated under one parent, with no other
\* directory there using the names, the first gets the plain slug and the
\* k-th gets slug-k.
C10_SiblingSuffixes ==
    \A k \in 1..Len(allocs) :
        NamesFree(k) =>
            LET n == Cardinality(SameTitleAllocs(k))
                base == slugify(allocs[k].title)
            IN  allocs[k].slug = IF n = 1 THEN base
                                 ELSE base \o <<"-">> \o Decimal(n)

\* Three siblings titled "Release Notes" were allocated release-notes,
\* release-notes-2 and release-notes-3 under the root directory.
C10_Witness ==
    LET rn == <<"r", "e", "l", "e", "a", "s", "e", "-", "n", "o", "t", "e", "s">>
    IN  \E i, j, k \in 1..Len(allocs) :
            /\ i < j /\ j < k
            /\ \A x \in {i, j, k} : allocs[x].parent = <<>> /\ allocs[x].title = ReleaseNotes
            /\ NamesFree(k)
            /\ allocs[i].slug = rn
            /\ allocs[j].slug = rn \o <<"-", "2">>
            /\ allocs[k].slug = rn \o <<"-", "3">>

-----------------------------------------------------------------------------
(* C11 *)

\* C11: no page is allocated a directory name that another directory of the
\* same parent directory already has.
C11_UniqueSiblingNames ==
    \A k \in 1..Len(allocs) : allocs[k].slug \notin allocs[k].taken

\* Under one parent, "Release Notes" twice and then "Release Notes 2", whose
\* slug is the suffixed name of the second: release-notes, release-notes-2,
\* release-notes-2-2.
C11_Witness ==
    LET rn == <<"r", "e", "l", "e", "a", "s", "e", "-", "n", "o", "t", "e", "s">>
    IN  \E i, j, k \in 1..Len(allocs) :
            /\ i < j /\ j < k
            /\ allocs[i].parent = allocs[k].parent /\ allocs[j].parent = allocs[k].parent
            /\ allocs[i].slug = rn
            /\ allocs[j].slug = rn \o <<"-", "2">>
            /\ allocs[k].title = ReleaseNotes \o <<" ", "2">>
            /\ allocs[k].slug = rn \o <<"-", "2", "-", "2">>

\* A page created remotely after the first download is allocated a suffixed
\* name by a store constructed over the directories of that download.
C11_WitnessExisting ==
    /\ swrites = 2
    /\ Len(lastWrite.descendants) = MaxStorePages
    /\ LET last == allocs[Len(allocs)]
       IN  /\ last.taken # {}
           /\ slugify(last.title) \in last.taken
           /\ last.slug # slugify(last.title)

-----------------------------------------------------------------------------
(* C24, C25: write_tree over an earlier download *)

\* C24: a successful write_tree of the pages that the write_tree before it
\* wrote allocates no directory and leaves the directories and the page.md
\* files as that call left them.
C24_RedownloadReuses ==
    (/\ lastWrite.called
     /\ ~lastWrite.raised
     /\ lastWrite.prior.pages = <<lastWrite.root>> \o lastWrite.descendants)
    => /\ sdirs = lastWrite.prior.dirs
       /\ sfiles = lastWrite.prior.files
       /\ Len(allocs) = lastWrite.prior.allocs

\* The second download of an unchanged tree in which two siblings have one
\* title and so hold a plain and a suffixed directory.
C24_Witness ==
    /\ swrites = 2
    /\ ~lastWrite.raised
    /\ lastWrite.prior.pages = <<lastWrite.root>> \o lastWrite.descendants
    /\ Len(lastWrite.descendants) >= 2
    /\ \E i, j \in 1..Len(allocs) :
          /\ i < j
          /\ allocs[i].parent = allocs[j].parent
          /\ allocs[i].title = allocs[j].title
          /\ allocs[j].slug = slugify(allocs[j].title) \o <<"-", "2">>

\* The name is the slug of the title, or that slug with a suffix -n, n >= 2.
SlugOfTitle(name, title) ==
    \/ name = slugify(title)
    \/ \E n \in 2..(Cardinality(sdirs) + 1) :
          name = slugify(title) \o <<"-">> \o Decimal(n)

\* C25: after a successful write_tree the directory of every page written
\* but the root is named by the slug of the title the page was written with.
C25_NameIsSlugOfTitle ==
    (lastWrite.called /\ ~lastWrite.raised) =>
        \A i \in 1..Len(lastWrite.descendants) :
            LET page == lastWrite.descendants[i]
                directory == lastWrite.idmap[page.id]
            IN  /\ directory # <<>>
                /\ SlugOfTitle(directory[Len(directory)], page.title)

-----------------------------------------------------------------------------
(* C26 *)

\* The requests made are, for each page yielded and in the order of the
\* yields, one get_page of the page and then one list-children of it; no
\* page is yielded twice; a finished traversal has yielded the root page and
\* every page below it.
OneFetchOneListing ==
    /\ Len(tlog) = 2 * Len(yielded)
    /\ \A i \in 1..Len(yielded) :
          /\ tlog[2 * i - 1].kind = "get" /\ tlog[2 * i - 1].page_id = yielded[i].id
          /\ tlog[2 * i].kind = "children" /\ tlog[2 * i].page_id = yielded[i].id
    /\ \A i, j \in 1..Len(yielded) : yielded[i].id = yielded[j].id => i = j
    /\ tpc = "done" =>
          {yielded[i].id : i \in 1..Len(yielded)}
              = {troot} \cup RemoteDescendants(remote, troot)

\* C26: iter_page_tree terminates, having yielded every page of the subtree
\* once, with one get_page and then one list-children request per page
\* yielded.
C26_TerminatesOneFetchOneListing ==
    /\ []OneFetchOneListing
    /\ <>(tpc = "done")

\* A finished traversal of a tree of four pages on three levels.
C26_Witness ==
    /\ tpc = "done"
    /\ Len(yielded) = 4
    /\ Len(tlog) = 8
    /\ yielded[2].parent_id = troot
    /\ \E i \in 3..4 : yielded[i].parent_id = yielded[2].id

-----------------------------------------------------------------------------
(* read_tree (local/repository.py) over a directory that was written by     *)
(* hand: some directories hold no page.md, some page.md give no title.      *)

\* Number of directories below the root in the read specification.
MaxReadDirs == 3

\* The directory names of the read specification; sorted, they are .g,
\* a-10, a-2.
ReadNames == {<<".", "g">>, <<"a", "-", "1", "0">>, <<"a", "-", "2">>}

\* The sets of at most n directories below the root, each with its parent.
RECURSIVE ReadDirSets(_)
ReadDirSets(n) ==
    IF n = 0 THEN {{<<>>}}
    ELSE LET smaller == ReadDirSets(n - 1)
         IN  smaller \cup UNION {{D \cup {Append(p, name)} : p \in D, name \in ReadNames}
                                 : D \in smaller}

\* A page.md written by hand, with or without a title.
ReadFile(titled) ==
    [title |-> IF titled THEN <<"T">> ELSE NoTitle, space_key |-> None,
     confluence_id |-> None, parent_id |-> None, version |-> NoVersion,
     body |-> "raw"]

ReadInit ==
    /\ RemoteIdle
    /\ TraversalIdle
    /\ UploadIdle
    /\ PathIdle
    /\ DownloadIdle
    /\ ReadIdle
    /\ SlugIdle
    /\ sdirs \in ReadDirSets(MaxReadDirs)
    /\ \E P \in SUBSET sdirs : \E U \in SUBSET P :
          sfiles = [d \in P |-> ReadFile(d \notin U)]
    /\ susage = RegisterExistingSlugs(sdirs)
    /\ swrites = 0
    /\ schanged = FALSE
    /\ allocs = <<>>
    /\ lastWrite = [called |-> FALSE]

\* read_tree(), the operating system listing the directories in some order.
ReadTreeCall ==
    /\ \E listed \in Orderings(ReadNames) :
          rtree' = [called |-> TRUE] @@ ReadTree(sdirs, sfiles, listed)
    /\ rprev' = rtree
    /\ UNCHANGED rdframe

ReadNext == ReadTreeCall

SpecRead == ReadInit /\ [][ReadNext]_vars

-----------------------------------------------------------------------------
(* C27, C28 *)

\* The directories are in ascending order of their names.
Ascending(directories) ==
    \A i \in 1..(Len(directories) - 1) :
        NameLess(DirectoryName(directories[i]), DirectoryName(directories[i + 1]))

\* C27: the children of every node of the tree read_tree returns are in
\* ascending lexicographic order of their directory names, and two
\* read_tree calls over the same directory have the same outcome.
C27_ReadTreeDeterministic ==
    rtree.called =>
        /\ rtree.ok => \A d \in DOMAIN rtree.children : Ascending(rtree.children[d])
        /\ rprev.called => rprev = rtree

\* Two calls returned a tree whose root has the children a-10 and a-2, in
\* that order.
C27_Witness ==
    /\ rprev.called
    /\ rtree.ok
    /\ rtree.children[<<>>] = << <<<<"a", "-", "1", "0">>>>, <<<<"a", "-", "2">>>> >>
    /\ Cardinality(sdirs) = 4

\* C28: read_tree raises FileNotFoundError when the root directory has no
\* page.md, and otherwise returns a tree with one node for every directory,
\* each under the node of its containing directory.
C28_ReadTreeLoadsEveryDirectory ==
    rtree.called =>
        IF <<>> \notin DOMAIN sfiles
        THEN ~rtree.ok /\ rtree.error = "FileNotFoundError" /\ rtree.at = <<>>
        ELSE /\ rtree.ok
             /\ DOMAIN rtree.nodes = sdirs
             /\ \A d \in sdirs \ {<<>>} :
                   \E i \in 1..Len(rtree.children[ParentOf(d)]) :
                       rtree.children[ParentOf(d)][i] = d

-----------------------------------------------------------------------------
(* download_tree (sync/service.py): one call, into a directory that is new  *)
(* or holds an earlier download of the tree below the first or the second   *)
(* page, while another user may move a page that is listed but not yet      *)
(* fetched.                                                                 *)

\* Number of pages of the remote space in the download specification.
MaxDownloadPages == 4

TitleA == <<"A">>
TitleB == <<"B">>
TitleZ == <<"Z">>

\* A page of the remote space outside the tree of the first page.
Elsewhere == "700"

DownloadParents ==
    {p \in [1..MaxDownloadPages -> 0..MaxDownloadPages] :
        p[1] = 0 /\ \A i \in 2..MaxDownloadPages : p[i] \in 1..(i - 1)}

DownloadRemote(p, titles) ==
    [id \in {IdOf(i) : i \in 1..MaxDownloadPages} \cup {Elsewhere} |->
        IF id = Elsewhere
        THEN [title |-> <<"E">>, space |-> "DOC", version |-> 1, body |-> "s",
              parent |-> None]
        ELSE LET i == CHOOSE k \in 1..MaxDownloadPages : IdOf(k) = id
             IN  [title |-> IF i = 1 THEN TitleA ELSE titles[i],
                  space |-> "DOC", version |-> 1, body |-> "s",
                  parent |-> IF p[i] = 0 THEN None ELSE IdOf(p[i])]]

\* The keyword arguments download_tree is called with.
DownloadArgs ==
    {a \in [root_page_id : {None, "", IdOf(1), IdOf(2)},
            space_key : {None, "DOC"},
            root_title : {NoTitle, TitleA, TitleB, TitleZ},
            parent_page_id : {None, IdOf(1)}] :
        \/ /\ TruthyStr(a.root_page_id)
           /\ a.parent_page_id = None
           /\ a.root_title \in {NoTitle, TitleA}
           /\ a.space_key = (IF a.root_title = NoTitle THEN None ELSE "DOC")
        \/ /\ a.root_page_id = None
           /\ a.space_key = "DOC"
        \/ /\ a.root_page_id = None
           /\ a.space_key = None
           /\ a.root_title \in {NoTitle, TitleA}
           /\ a.parent_page_id = None
        \/ /\ a.root_page_id = ""
           /\ a.space_key = "DOC"
           /\ a.root_title = TitleA
           /\ a.parent_page_id = None}

\* get_page_by_title as a call.
GetPageByTitleCall(rem, order, title, parent_id) ==
    LET existing == GetPageByTitle(rem, order, title, parent_id)
        search == Request("search", existing,
                          IF TruthyStr(parent_id) THEN parent_id ELSE None)
    IN  [ok |-> TRUE, rem |-> rem,
         page |-> IF existing = None THEN NoPage ELSE ToPageContent(rem, existing),
         reqs |-> <<search>>]

\* A call that makes no request and returns None.
NoCall(rem) == [ok |-> TRUE, rem |-> rem, page |-> NoPage, reqs |-> <<>>]

ResolveByTitleWithoutSpace(rem, order, a) ==
    IF TruthyStr(a.root_page_id) THEN GetPageCall(rem, a.root_page_id)
    ELSE IF TruthyTitle(a.root_title)
    THEN GetPageByTitleCall(rem, order, a.root_title, a.parent_page_id)
    ELSE NoCall(rem)

\* _resolve_root_page
ResolveRootPage(rem, order, a) ==
    IF TruthyStr(a.root_page_id) THEN GetPageCall(rem, a.root_page_id)
    ELSE IF TruthyTitle(a.root_title) /\ TruthyStr(a.space_key)
    THEN GetPageByTitleCall(rem, order, a.root_title, a.parent_page_id)
    ELSE NoCall(rem)

SyncResultWithoutRoot(descendants) ==
    [kind |-> "ok", processed_pages |-> Len(descendants),
     created_pages |-> 0, updated_pages |-> 0]

\* SyncResult(processed_pages=1 + len(descendants)), the counters at their
\* defaults.
SyncResultOf(descendants) ==
    [kind |-> "ok", processed_pages |-> 1 + Len(descendants),
     created_pages |-> 0, updated_pages |-> 0]

ReadyToWriteEarly(pending) == TRUE

\* list(iterator) has returned: the generator's queue is empty.
ReadyToWrite(pending) == pending = <<>>

\* The directory after write_tree of the tree below a page into a new
\* directory; no directory when there was no earlier download.
EarlierDownload(rem, order, root) ==
    LET pages == IterPageTree(rem, order, <<root>>)
    IN  IF root = None THEN [dirs |-> {}, files |-> <<>>]
        ELSE WriteTree({}, <<>>, <<>>, <<>>, Head(pages), Tail(pages))

DownloadInit ==
    /\ UploadIdle
    /\ PathIdle
    /\ TraversalIdle
    /\ DownloadIdle
    /\ ReadIdle
    /\ SlugIdle
    /\ \E p \in DownloadParents : \E titles \in [2..MaxDownloadPages -> {TitleA, TitleB}] :
          remote = DownloadRemote(p, titles)
    /\ rorder = [i \in 1..MaxDownloadPages |-> IdOf(i)] \o <<Elsewhere>>
    /\ faulted = FALSE
    /\ \E earlier \in {None, IdOf(1), IdOf(2)} :
          /\ sdirs = EarlierDownload(remote, rorder, earlier).dirs
          /\ sfiles = EarlierDownload(remote, rorder, earlier).files
    /\ susage = RegisterExistingSlugs(sdirs)
    /\ swrites = 0
    /\ schanged = FALSE
    /\ allocs = <<>>
    /\ lastWrite = [called |-> FALSE]


\* The call starts: _resolve_root_page, then the generator is created.  No
\* page: RuntimeError.
DownloadTreeBegin ==
    /\ dpc = "idle"
    /\ \E a \in DownloadArgs :
       LET tried == ResolveRootPage(remote, rorder, a)
       IN  \E f \in 0..(IF faulted THEN 0 ELSE Len(tried.reqs)) :
           LET call == Faulted(remote, tried, f)
               found == call.ok /\ call.page # NoPage
           IN  /\ dargs' = a
               /\ faulted' = (faulted \/ f > 0)
               /\ dpc' = IF found THEN "iter" ELSE "raised"
               /\ dresult' = IF found THEN dresult
                             ELSE IF call.ok THEN [kind |-> "RuntimeError", at |-> "root"]
                             ELSE [kind |-> "HTTPError", at |-> "root"]
               /\ troot' = IF found THEN call.page.id ELSE troot
               /\ queue' = IF found THEN <<call.page.id>> ELSE queue
               /\ tpc' = IF found THEN "iter" ELSE tpc
    /\ dbefore' = [dirs |-> sdirs, files |-> sfiles]
    /\ UNCHANGED <<remote, rorder, yielded, tlog, svars, dframe>>

\* One turn of iter_page_tree's loop under next(iterator) or list(iterator):
\* get_page, then get_child_pages.
DownloadFetch ==
    /\ dpc = "iter"
    /\ queue # <<>>
    /\ LET pop == PopLeft(queue)
           listing == GetChildPagesCall(remote, pop[1])
           got == GetPageCall(remote, pop[1])
           tried == IF got.ok THEN After(got.reqs, listing) ELSE got
       IN  \E f \in 0..(IF faulted THEN 0 ELSE Len(tried.reqs)) :
           LET call == Faulted(remote, tried, f)
           IN  /\ faulted' = (faulted \/ f > 0)
               /\ tlog' = tlog \o call.reqs
               /\ IF call.ok
                  THEN /\ yielded' = Append(yielded, got.page)
                       /\ queue' = pop[2] \o GetChildPages(remote, rorder, pop[1])
                       /\ UNCHANGED <<dpc, dresult>>
                  ELSE /\ dpc' = "raised"
                       /\ dresult' = [kind |-> "HTTPError", at |-> pop[1]]
                       /\ UNCHANGED <<yielded, queue>>
    /\ UNCHANGED <<remote, rorder, troot, tpc, dargs, dbefore, svars, dframe>>

\* Another user moves a page that the traversal has listed and not fetched.
DownloadMoveAway ==
    /\ dpc = "iter"
    /\ ~schanged
    /\ \E id \in SeqToSet(queue) \ {troot} :
       \E to \in {Elsewhere, IdOf(1)} \ ({id, remote[id].parent} \cup RemoteDescendants(remote, id)) :
          remote' = [remote EXCEPT ![id].parent = to, ![id].version = @ + 1]
    /\ schanged' = TRUE
    /\ UNCHANGED <<rorder, faulted, tvars, sdirs, sfiles, susage, swrites, allocs,
                   lastWrite, dvars, dframe>>

\* write_tree(root, descendants) and the SyncResult, or write_tree's
\* RuntimeError.
DownloadWrite ==
    /\ dpc = "iter"
    /\ yielded # <<>>
    /\ ReadyToWrite(queue)
    /\ LET st == WriteTree(sdirs, sfiles, susage, allocs, Head(yielded), Tail(yielded))
       IN  /\ sdirs' = st.dirs
           /\ sfiles' = st.files
           /\ susage' = st.usage
           /\ allocs' = st.allocs
           /\ lastWrite' = [called |-> TRUE, root |-> Head(yielded),
                            descendants |-> Tail(yielded), raised |-> st.raised,
                            idmap |-> st.idmap, prior |-> PriorWrite]
           /\ dpc' = IF st.raised THEN "raised" ELSE "returned"
           /\ dresult' = IF st.raised THEN [kind |-> "RuntimeError", at |-> "parent"]
                         ELSE SyncResultOf(Tail(yielded))
    /\ swrites' = swrites + 1
    /\ tpc' = "done"
    /\ UNCHANGED <<rvars, troot, queue, yielded, tlog, schanged, dargs, dbefore, dframe>>

DownloadNext == DownloadTreeBegin \/ DownloadFetch \/ DownloadMoveAway \/ DownloadWrite

SpecDownload == DownloadInit /\ [][DownloadNext]_vars

-----------------------------------------------------------------------------
(* C12, C15, C16, C20: download_tree *)

\* The directory is as it was when the call started.
DiskUntouched == sdirs = dbefore.dirs /\ sfiles = dbefore.files

\* The descendants of the last write_tree whose parent is neither the root
\* page, nor an earlier descendant, nor a page the pre-scan found.
Orphans ==
    LET desc == lastWrite.descendants
        existing == CollectExistingDirectories(dbefore.dirs \cup {<<>>}, dbefore.files)
    IN  {i \in 1..Len(desc) :
            desc[i].parent_id \notin
                {lastWrite.root.id} \cup {desc[m].id : m \in 1..(i - 1)} \cup DOMAIN existing}

\* C12: write_tree raises exactly when a descendant's parent is in neither
\* map; then the pages given a directory are the root and the descendants
\* before the first such one, no directory is added and no page.md is
\* written but theirs, and no name is allocated for it or a later one.
C12_OrphanIsFatal ==
    lastWrite.called =>
        IF Orphans = {} THEN ~lastWrite.raised
        ELSE LET desc == lastWrite.descendants
                 j == CHOOSE i \in Orphans : \A m \in Orphans : i <= m
                 given == {lastWrite.idmap[id] : id \in DOMAIN lastWrite.idmap}
             IN  /\ lastWrite.raised
                 /\ dresult = [kind |-> "RuntimeError", at |-> "parent"]
                 /\ DOMAIN lastWrite.idmap =
                       {lastWrite.root.id} \cup {desc[m].id : m \in 1..(j - 1)}
                 /\ sdirs = dbefore.dirs \cup given
                 /\ \A d \in DOMAIN sfiles \ given :
                       d \in DOMAIN dbefore.files /\ sfiles[d] = dbefore.files[d]
                 /\ Len(allocs) <= j - 1

\* write_tree raised at the second of three descendants, over a directory
\* that held an earlier download.
C12_Witness ==
    /\ lastWrite.called
    /\ lastWrite.raised
    /\ dbefore.dirs # {}
    /\ Len(lastWrite.descendants) = 3
    /\ Orphans = {2}

\* C29: when write_tree returns, the root page and the descendants have
\* pairwise different directories, the page.md of the root directory holds
\* the root page and the page.md of every descendant's directory holds that
\* descendant.
C29_OnePagePerContentFile ==
    (lastWrite.called /\ ~lastWrite.raised) =>
        /\ \A a, b \in DOMAIN lastWrite.idmap :
              lastWrite.idmap[a] = lastWrite.idmap[b] => a = b
        /\ sfiles[<<>>] = DumpPage(lastWrite.root)
        /\ \A i \in 1..Len(lastWrite.descendants) :
              sfiles[lastWrite.idmap[lastWrite.descendants[i].id]]
                  = DumpPage(lastWrite.descendants[i])

\* C15: nothing is written while the tree is enumerated or when a fetch
\* fails; when write_tree is called no listed page is left to fetch and the
\* pages written are the pages fetched, which, unless a page moved
\* meanwhile, are the whole tree below the root.
C15_FetchBeforeWrite ==
    /\ dpc = "iter" => (DiskUntouched /\ ~lastWrite.called)
    /\ (dpc = "raised" /\ dresult.kind = "HTTPError") => (DiskUntouched /\ ~lastWrite.called)
    /\ lastWrite.called =>
          /\ queue = <<>>
          /\ <<lastWrite.root>> \o lastWrite.descendants = yielded
          /\ ~schanged => yielded = IterPageTree(remote, rorder, <<troot>>)

\* A fetch failed after two pages were fetched, over a directory that held an
\* earlier download.
C15_Witness ==
    /\ dpc = "raised"
    /\ dresult.kind = "HTTPError"
    /\ Len(yielded) >= 2
    /\ dbefore.dirs # {}

\* The call ended with the resolution error, having fetched and written
\* nothing.
ResolutionError ==
    /\ dpc = "raised"
    /\ dresult = [kind |-> "RuntimeError", at |-> "root"]
    /\ yielded = <<>>
    /\ DiskUntouched
    /\ ~lastWrite.called

\* The pages a title lookup can return.
TitleMatches(a) ==
    {id \in DOMAIN remote :
        /\ remote[id].title = a.root_title
        /\ remote[id].space = a.space_key
        /\ TruthyStr(a.parent_page_id) => remote[id].parent = a.parent_page_id}

\* C16: with an identifier the root is that page; without one and with a
\* title and a space key it is a page of that title (under the parent, when
\* one is given), and the call fails with the resolution error when there is
\* none; without an identifier and without a title or a space key the call
\* fails with the resolution error.  (A request that the server answers with
\* an error status ends the call with that error.)
C16_RootResolution ==
    (dpc # "idle" /\ ~(dresult.kind = "HTTPError" /\ dresult.at = "root")) =>
        IF TruthyStr(dargs.root_page_id)
        THEN troot = dargs.root_page_id
        ELSE IF TruthyTitle(dargs.root_title) /\ TruthyStr(dargs.space_key)
                /\ TitleMatches(dargs) # {}
        THEN troot \in TitleMatches(dargs)
        ELSE ResolutionError

\* A title that a page has, and no space key: the resolution error, over a
\* directory that held an earlier download.
C16_Witness ==
    /\ ResolutionError
    /\ dargs.root_page_id = None
    /\ dargs.root_title = TitleA
    /\ dargs.space_key = None
    /\ dbefore.dirs # {}

\* C20: the SyncResult of a download has processed_pages = 1 + the number of
\* descendants the traversal yielded, created_pages = 0 and updated_pages = 0.
C20_DownloadCounts ==
    dpc = "returned" =>
        /\ dresult.kind = "ok"
        /\ dresult.processed_pages = 1 + (Len(yielded) - 1)
        /\ dresult.processed_pages = 1 + Len(lastWrite.descendants)
        /\ dresult.created_pages = 0
        /\ dresult.updated_pages = 0

\* A download of a root with two descendants returned, over a directory
\* that held an earlier download whose pages it overwrote.
C20_Witness ==
    /\ dpc = "returned"
    /\ Len(yielded) = 3
    /\ dresult.processed_pages = 3
    /\ dbefore.dirs # {}

====
